---- MODULE Spec2Model ----
(***************************************************************************)
(* Model of the BTC sentiment pipeline (src/main.py, src/app.py):          *)
(*   SpecPrice  - fetch_price_snapshot with its retry loop fetch_json      *)
(*   SpecNews   - fetch_news followed by filter_recent                     *)
(*   SpecScore  - _score_text over character sequences                     *)
(*   SpecSignal - combine_signal and the two sentiment classifiers         *)
(* Real numbers are exact rationals [n, d] with d > 0 in lowest terms.     *)
(***************************************************************************)
EXTENDS Integers, Sequences, FiniteSets, TLC

VARIABLES
    \* fetch_price_snapshot
    retries,      \* argument
    attempt,      \* loop variable of fetch_json
    last_exc,     \* fetch_json local: the exception kept for chaining
    pc,           \* position inside fetch_price_snapshot
    log,          \* observable events: HTTP calls, failures, sleeps
    chart,        \* value returned by fetch_json
    outcome,      \* what fetch_price_snapshot returned or raised
    \* fetch_news, filter_recent
    feeds,        \* feed.entries of each source, as feedparser.parse returns them
    nread,        \* entries consumed so far, in source-then-entry order
    items,        \* fetch_news local, in append order
    seen,         \* fetch_news local
    news,         \* the list fetch_news returned
    now,          \* filter_recent argument
    today_only,   \* filter_recent argument
    filtered,     \* filter_recent result, first component
    window_label, \* filter_recent result, second component
    npc,          \* position inside the news pipeline
    \* _score_text
    text,         \* argument
    score,        \* <<>> before the call, <<result>> after
    \* combine_signal, format_report, classify_signal
    news_items,   \* combine_signal argument
    futures,      \* combine_signal argument
    combined,     \* <<>> before the call, <<result>> after
    report,       \* <<sentiment, direction>> chosen by format_report
    badge         \* <<sentiment, direction>> returned by classify_signal

priceVars == <<retries, attempt, last_exc, pc, log, chart, outcome>>
newsVars == <<feeds, nread, items, seen, news, now, today_only, filtered,
              window_label, npc>>
scoreVars == <<text, score>>
signalVars == <<news_items, futures, combined, report, badge>>
vars == <<priceVars, newsVars, scoreVars, signalVars>>

\* Python's None where an exception, a body or a result is expected
NoExc == [exc |-> "None", attempt |-> 0]
NoChart == <<>>
NoOutcome == [kind |-> "none"]

\* ---------------------------------------------------------------- bounds
MaxRetries == 3
MaxBars == 3
MaxEntries == 3
MaxPieces == 3
MaxItems == 2

NewsIdle ==
    /\ feeds = <<>>
    /\ nread = 0
    /\ items = <<>>
    /\ seen = {}
    /\ news = <<>>
    /\ now = 0
    /\ today_only = FALSE
    /\ filtered = <<>>
    /\ window_label = ""
    /\ npc = "idle"

ScoreIdle ==
    /\ text = <<>>
    /\ score = <<>>

SignalIdle ==
    /\ news_items = <<>>
    /\ futures = <<>>
    /\ combined = <<>>
    /\ report = <<>>
    /\ badge = <<>>

\* ------------------------------------------------------------- rationals
Abs(x) == IF x < 0 THEN -x ELSE x

RECURSIVE GCD(_, _)
GCD(a, b) == IF b = 0 THEN a ELSE GCD(b, a % b)

Rat(n, d) ==
    LET s == IF d < 0 THEN -1 ELSE 1
        g == GCD(Abs(n), Abs(d))
    IN  [n |-> (s * n) \div g, d |-> (s * d) \div g]

RInt(i) == [n |-> i, d |-> 1]
RAdd(x, y) == Rat(x.n * y.d + y.n * x.d, x.d * y.d)
RSub(x, y) == Rat(x.n * y.d - y.n * x.d, x.d * y.d)
RMul(x, y) == Rat(x.n * y.n, x.d * y.d)
RDiv(x, y) == Rat(x.n * y.d, x.d * y.n)
RLe(x, y) == x.n * y.d <= y.n * x.d
RLt(x, y) == x.n * y.d < y.n * x.d
RAbs(x) == [n |-> Abs(x.n), d |-> x.d]
RMin(x, y) == IF RLe(x, y) THEN x ELSE y
RMax(x, y) == IF RLe(x, y) THEN y ELSE x

RECURSIVE RSum(_)
RSum(s) == IF s = <<>> THEN RInt(0) ELSE RAdd(Head(s), RSum(Tail(s)))

\* ------------------------------------------------------ sequence helpers
RECURSIVE SeqsUpTo(_, _)
SeqsUpTo(S, n) ==
    IF n = 0 THEN {<<>>}
    ELSE LET shorter == SeqsUpTo(S, n - 1)
         IN  shorter \cup {Append(s, x) : s \in shorter, x \in S}

Min2(a, b) == IF a < b THEN a ELSE b
Last(s) == s[Len(s)]

\* ------------------------------------------------------------------ text
\* A str is a sequence of one-character strings.
Uppers == <<"A", "B", "C", "D", "E", "F", "G", "H", "I", "J", "K", "L", "M",
            "N", "O", "P", "Q", "R", "S", "T", "U", "V", "W", "X", "Y", "Z">>
Lowers == <<"a", "b", "c", "d", "e", "f", "g", "h", "i", "j", "k", "l", "m",
            "n", "o", "p", "q", "r", "s", "t", "u", "v", "w", "x", "y", "z">>
Whitespace == {" ", "\t", "\n"}

Range(f) == {f[i] : i \in DOMAIN f}

\* str.lower(), one character
LowerChar(c) ==
    IF \E i \in DOMAIN Uppers : Uppers[i] = c
    THEN Lowers[CHOOSE i \in DOMAIN Uppers : Uppers[i] = c]
    ELSE c

\* str.lower()
Lower(txt) == [i \in 1..Len(txt) |-> LowerChar(txt[i])]

\* the character class [a-zA-Z']
IsTokenChar(c) == c \in Range(Lowers) \cup Range(Uppers) \cup {"'"}

\* re.findall(r"[a-zA-Z']+", text): the maximal runs, left to right; `run` is
\* the run being read
RECURSIVE FindAll(_, _)
FindAll(txt, run) ==
    IF txt = <<>> THEN (IF run = <<>> THEN <<>> ELSE <<run>>)
    ELSE IF IsTokenChar(Head(txt)) THEN FindAll(Tail(txt), Append(run, Head(txt)))
    ELSE (IF run = <<>> THEN <<>> ELSE <<run>>) \o FindAll(Tail(txt), <<>>)

\* re.sub(r"\s+", " ", txt): every whitespace run becomes one space
RECURSIVE CollapseWs(_, _)
CollapseWs(txt, inRun) ==
    IF txt = <<>> THEN <<>>
    ELSE IF Head(txt) \in Whitespace
         THEN (IF inRun THEN <<>> ELSE <<" ">>) \o CollapseWs(Tail(txt), TRUE)
         ELSE <<Head(txt)>> \o CollapseWs(Tail(txt), FALSE)

\* str.strip()
RECURSIVE Strip(_)
Strip(txt) ==
    IF txt = <<>> THEN <<>>
    ELSE IF Head(txt) \in Whitespace THEN Strip(Tail(txt))
    ELSE IF Last(txt) \in Whitespace THEN Strip(SubSeq(txt, 1, Len(txt) - 1))
    ELSE txt

_clean_text(txt) == Strip(CollapseWs(txt, FALSE))

POSITIVE_WORDS ==
    {<<"b", "e", "a", "t">>,
     <<"b", "r", "e", "a", "k", "o", "u", "t">>,
     <<"b", "u", "l", "l">>,
     <<"b", "u", "l", "l", "i", "s", "h">>,
     <<"b", "u", "y">>,
     <<"d", "e", "m", "a", "n", "d">>,
     <<"g", "a", "i", "n">>,
     <<"g", "r", "e", "e", "n">>,
     <<"g", "r", "o", "w", "t", "h">>,
     <<"h", "i", "g", "h", "e", "r">>,
     <<"i", "n", "f", "l", "o", "w">>,
     <<"j", "u", "m", "p">>,
     <<"o", "p", "t", "i", "m", "i", "s", "m">>,
     <<"o", "u", "t", "p", "e", "r", "f", "o", "r", "m">>,
     <<"r", "a", "l", "l", "y">>,
     <<"r", "e", "c", "o", "v", "e", "r">>,
     <<"r", "e", "s", "i", "l", "i", "e", "n", "t">>,
     <<"r", "i", "s", "e">>,
     <<"r", "i", "s", "k", "-", "o", "n">>,
     <<"s", "t", "r", "o", "n", "g">>,
     <<"s", "u", "r", "g", "e">>,
     <<"u", "p">>}

NEGATIVE_WORDS ==
    {<<"b", "e", "a", "r">>,
     <<"b", "e", "a", "r", "i", "s", "h">>,
     <<"c", "r", "a", "s", "h">>,
     <<"d", "e", "c", "l", "i", "n", "e">>,
     <<"d", "r", "o", "p">>,
     <<"f", "e", "a", "r">>,
     <<"h", "e", "a", "d", "w", "i", "n", "d">>,
     <<"l", "i", "q", "u", "i", "d", "a", "t", "i", "o", "n">>,
     <<"l", "o", "s", "s">>,
     <<"l", "o", "w", "e", "r">>,
     <<"o", "u", "t", "f", "l", "o", "w">>,
     <<"p", "l", "u", "n", "g", "e">>,
     <<"p", "r", "e", "s", "s", "u", "r", "e">>,
     <<"r", "i", "s", "k", "-", "o", "f", "f">>,
     <<"s", "e", "l", "l">>,
     <<"s", "e", "l", "l", "o", "f", "f">>,
     <<"s", "l", "u", "m", "p">>,
     <<"w", "e", "a", "k">>,
     <<"w", "o", "r", "s", "e">>}

\* sum(1 for t in tokens if t in words)
CountIn(tokens, words) == Cardinality({i \in 1..Len(tokens) : tokens[i] \in words})

\* mutant: divides by the number of tokens instead of the number of hits
ScoreOverTokens(positives, negatives, ntokens) ==
    IF ntokens = 0 THEN RInt(0)
    ELSE IF positives = 0 /\ negatives = 0 THEN RInt(0)
    ELSE Rat(positives - negatives, ntokens)

\* lines 104-110 on the counts
ScoreOf(positives, negatives, ntokens) ==
    IF ntokens = 0 THEN RInt(0)
    ELSE IF positives = 0 /\ negatives = 0 THEN RInt(0)
    ELSE Rat(positives - negatives,
             IF positives + negatives > 1 THEN positives + negatives ELSE 1)

_score_text(txt) ==
    LET tokens == FindAll(Lower(txt), <<>>)
    IN  ScoreOf(CountIn(tokens, POSITIVE_WORDS), CountIn(tokens, NEGATIVE_WORDS),
                Len(tokens))

\* ------------------------------------------------- fetch_price_snapshot
TsValues == {1, 2}
\* a JSON close value: null, or a number
Null == <<>>
Num(v) == <<v>>
CloseValues == {Null, Num(-1), Num(0), Num(2)}

\* The JSON bodies Yahoo can answer with: "result" empty, or one series with
\* a timestamp array and a quote list that is empty or holds one close array.
Bodies ==
    {[result |-> <<>>]} \cup
    {[result |-> <<[timestamp |-> ts, quote |-> q]>>] :
        ts \in SeqsUpTo(TsValues, MaxBars),
        q \in {<<>>} \cup {<<[close |-> c]>> : c \in SeqsUpTo(CloseValues, MaxBars)}}

Error(type, msg, cause) ==
    [kind |-> "error", type |-> type, msg |-> msg, cause |-> cause]

\* mutant: the null closes are removed first, the rest then zipped
CleanedFilterFirst(timestamps, closes) ==
    LET kept == SelectSeq(closes, LAMBDA c : c # Null)
    IN  [i \in 1..Min2(Len(timestamps), Len(kept)) |->
            [ts |-> timestamps[i], close |-> kept[i][1]]]

\* zip(timestamps, closes) with the null closes skipped
RECURSIVE Cleaned(_, _)
Cleaned(timestamps, closes) ==
    IF timestamps = <<>> \/ closes = <<>> THEN <<>>
    ELSE LET rest == Cleaned(Tail(timestamps), Tail(closes))
         IN  IF Head(closes) = Null THEN rest
             ELSE <<[ts |-> Head(timestamps), close |-> Head(closes)[1]]>> \o rest

\* list.sort(key=ts): stable, ascending
RECURSIVE InsertAsc(_, _)
InsertAsc(sorted, x) ==
    IF sorted = <<>> THEN <<x>>
    ELSE IF Last(sorted).ts <= x.ts THEN Append(sorted, x)
    ELSE Append(InsertAsc(SubSeq(sorted, 1, Len(sorted) - 1), x), Last(sorted))

RECURSIVE SortByTs(_)
SortByTs(s) ==
    IF s = <<>> THEN <<>>
    ELSE InsertAsc(SortByTs(SubSeq(s, 1, Len(s) - 1)), Last(s))

RECURSIVE Returns(_)
Returns(cleaned) ==
    IF Len(cleaned) < 2 THEN <<>>
    ELSE LET prev_close == cleaned[1].close
             close == cleaned[2].close
             rest == Returns(Tail(cleaned))
         IN  IF prev_close > 0
             THEN <<RAbs(Rat(close - prev_close, prev_close))>> \o rest
             ELSE rest

AvgAbsDailyReturn(cleaned) ==
    LET returns == Returns(cleaned)
    IN  IF returns # <<>> THEN RDiv(RSum(returns), RInt(Len(returns)))
        ELSE RInt(0)

PctChange(last_close, yesterday_close) ==
    RMul(Rat(last_close - yesterday_close, yesterday_close), RInt(100))

\* Lines 186-227: everything after fetch_json returned
Snapshot(body) ==
    IF body.result = <<>>
    THEN Error("RuntimeError", "No chart data returned from Yahoo Finance.", NoExc)
    ELSE LET series == body.result[1]
             timestamps == series.timestamp
             indicators == series.quote
         IN
    IF timestamps = <<>> \/ indicators = <<>>
    THEN Error("RuntimeError",
               "Yahoo Finance response missing timestamps or prices.", NoExc)
    ELSE LET closes == indicators[1].close IN
    IF closes = <<>> \/ Len(closes) < 2
    THEN Error("RuntimeError", "Not enough close data from Yahoo Finance.", NoExc)
    ELSE LET unsorted == Cleaned(timestamps, closes) IN
    IF Len(unsorted) < 2
    THEN Error("RuntimeError",
               "Not enough valid close data from Yahoo Finance.", NoExc)
    ELSE LET cleaned == SortByTs(unsorted)
             last == cleaned[Len(cleaned)]
             yesterday == cleaned[Len(cleaned) - 1]
         IN
    IF yesterday.close = 0
    THEN Error("ZeroDivisionError", "float division by zero", NoExc)
    ELSE [kind |-> "snapshot",
          last_price |-> last.close,
          last_close_time |-> last.ts,
          yesterday_close |-> yesterday.close,
          yesterday_close_time |-> yesterday.ts,
          pct_change_since_close |-> PctChange(last.close, yesterday.close),
          avg_abs_daily_return |-> AvgAbsDailyReturn(cleaned)]

\* time.sleep(1.5 * attempt), in tenths of a time unit
SleepTenths(k) == 15 * k

\* mutant: sleeps after the final attempt too
SleepsAfterAlways(k, n) == k <= n

\* `if attempt < retries` before the sleep
SleepsAfter(k, n) == k < n

\* mutant: off-by-one loop bound, range(1, retries + 2)
InRangeOneMore(k, n) == k <= n + 1

\* range(1, retries + 1) still has an element for this attempt
InRange(k, n) == k <= n

PriceIdle ==
    /\ retries = 0
    /\ attempt = 0
    /\ last_exc = NoExc
    /\ pc = "idle"
    /\ log = <<>>
    /\ chart = NoChart
    /\ outcome = NoOutcome

PriceInit ==
    /\ retries \in 0..MaxRetries
    /\ attempt = 1
    /\ last_exc = NoExc
    /\ pc = "fetch_json"
    /\ log = <<>>
    /\ chart = NoChart
    /\ outcome = NoOutcome

\* One loop iteration whose requests.get / raise_for_status / json raises a
\* requests.RequestException: remember it, sleep unless this was the last one.
AttemptFails ==
    /\ pc = "fetch_json"
    /\ InRange(attempt, retries)
    /\ last_exc' = [exc |-> "RequestException", attempt |-> attempt]
    /\ log' = log \o <<[ev |-> "get", attempt |-> attempt],
                       [ev |-> "fail", attempt |-> attempt]>>
                  \o (IF SleepsAfter(attempt, retries)
                      THEN <<[ev |-> "sleep", attempt |-> attempt,
                              tenths |-> SleepTenths(attempt)]>>
                      ELSE <<>>)
    /\ attempt' = attempt + 1
    /\ UNCHANGED <<retries, pc, chart, outcome, newsVars, scoreVars, signalVars>>

\* mutant: the empty-result check sits inside the try block and is retried
AttemptSucceedsValidatingInLoop ==
    /\ pc = "fetch_json"
    /\ InRange(attempt, retries)
    /\ \E body \in Bodies :
        /\ chart' = <<body>>
        /\ pc' = IF body.result = <<>> /\ attempt < retries
                 THEN "fetch_json" ELSE "validate"
        /\ attempt' = IF body.result = <<>> /\ attempt < retries
                      THEN attempt + 1 ELSE attempt
    /\ log' = log \o <<[ev |-> "get", attempt |-> attempt],
                       [ev |-> "ok", attempt |-> attempt]>>
    /\ UNCHANGED <<retries, last_exc, outcome, newsVars, scoreVars, signalVars>>

\* One loop iteration that returns response.json()
AttemptSucceeds ==
    /\ pc = "fetch_json"
    /\ InRange(attempt, retries)
    /\ \E body \in Bodies : chart' = <<body>>
    /\ log' = log \o <<[ev |-> "get", attempt |-> attempt],
                       [ev |-> "ok", attempt |-> attempt]>>
    /\ pc' = "validate"
    /\ UNCHANGED <<retries, attempt, last_exc, outcome, newsVars, scoreVars, signalVars>>

\* The loop ran out: raise RuntimeError(...) from last_exc
Exhausted ==
    /\ pc = "fetch_json"
    /\ ~InRange(attempt, retries)
    /\ outcome' = Error("RuntimeError", "Failed to fetch", last_exc)
    /\ pc' = "done"
    /\ UNCHANGED <<retries, attempt, last_exc, log, chart, newsVars, scoreVars, signalVars>>

\* Validation and snapshot construction on the returned body
Validate ==
    /\ pc = "validate"
    /\ outcome' = Snapshot(chart[1])
    /\ pc' = "done"
    /\ UNCHANGED <<retries, attempt, last_exc, log, chart, newsVars, scoreVars, signalVars>>

PriceNext == AttemptFails \/ AttemptSucceeds \/ Exhausted \/ Validate

InitPrice == PriceInit /\ NewsIdle /\ ScoreIdle /\ SignalIdle

SpecPrice == InitPrice /\ [][PriceNext]_vars

\* ------------------------------------------------ properties: price fetch
Gets == SelectSeq(log, LAMBDA e : e.ev = "get")
Fails == SelectSeq(log, LAMBDA e : e.ev = "fail")
Oks == SelectSeq(log, LAMBDA e : e.ev = "ok")
Sleeps == SelectSeq(log, LAMBDA e : e.ev = "sleep")

AllAttemptsFailed == pc = "done" /\ Oks = <<>>

\* C1: with retries >= 1 and every attempt ending in a RequestException,
\* exactly `retries` HTTP attempts numbered 1..retries are made, none numbered
\* retries+1, and the call raises RuntimeError caused by the last attempt's
\* exception.
C1_RetryExhaustion ==
    /\ \A i \in 1..Len(Gets) : Gets[i].attempt = i /\ i <= retries
    /\ (AllAttemptsFailed /\ retries >= 1) =>
          /\ Len(Gets) = retries
          /\ Len(Fails) = retries
          /\ outcome.kind = "error"
          /\ outcome.type = "RuntimeError"
          /\ outcome.msg = "Failed to fetch"
          /\ outcome.cause = [exc |-> "RequestException", attempt |-> retries]

C1_Witness ==
    /\ AllAttemptsFailed
    /\ retries = 3
    /\ Len(Gets) = 3
    /\ outcome.kind = "error"
    /\ outcome.cause.attempt = 3

\* C2: a returned FuturesSnapshot always has yesterday_close > 0, and no call
\* ends in a ZeroDivisionError.
C2_PriorClosePositive ==
    /\ outcome.kind = "snapshot" => outcome.yesterday_close > 0
    /\ outcome.kind = "error" => outcome.type # "ZeroDivisionError"

DataShapeMsgs ==
    {"No chart data returned from Yahoo Finance.",
     "Yahoo Finance response missing timestamps or prices.",
     "Not enough close data from Yahoo Finance.",
     "Not enough valid close data from Yahoo Finance."}

\* the body is one of the data-shape failures the spec lists, judged on the
\* body itself: no series, no timestamps or no quote, fewer than 2 closes that
\* are paired with a timestamp and not null
DataShapeFailure(body) ==
    \/ body.result = <<>>
    \/ body.result[1].timestamp = <<>>
    \/ body.result[1].quote = <<>>
    \/ LET ts == body.result[1].timestamp
           cl == body.result[1].quote[1].close
       IN  Cardinality({i \in 1..Min2(Len(ts), Len(cl)) : cl[i] # Null}) < 2

\* C9: once an HTTP attempt has returned a body no further HTTP attempt is
\* made, and a data-shape failure of that body ends the call with its own
\* error, which is not the transport-exhaustion error and chains no cause.
C9_DataShapeNotRetried ==
    /\ \A i \in 1..Len(log) : log[i].ev = "ok" => i = Len(log)
    /\ Len(Oks) <= 1
    /\ (pc = "done" /\ chart # NoChart /\ DataShapeFailure(chart[1])) =>
          /\ outcome.kind = "error"
          /\ outcome.type = "RuntimeError"
          /\ outcome.msg \in DataShapeMsgs
          /\ outcome.msg # "Failed to fetch"
          /\ outcome.cause = NoExc

C9_Witness ==
    /\ pc = "done"
    /\ retries = 3
    /\ chart # NoChart
    /\ DataShapeFailure(chart[1])
    /\ chart[1].result # <<>>
    /\ Len(Gets) = 1
    /\ outcome.kind = "error"
    /\ outcome.msg = "Not enough valid close data from Yahoo Finance."

\* C10: a failure on attempt k < retries is followed at once by a sleep of
\* 1.5 * k (15 * k tenths) and only then by attempt k+1; a failure on attempt
\* k = retries is followed by nothing; every sleep follows such a failure, so
\* none follows a success.
C10_Backoff ==
    \A i \in 1..Len(log) :
        /\ (log[i].ev = "fail" /\ log[i].attempt < retries) =>
              /\ i < Len(log)
              /\ log[i + 1].ev = "sleep"
              /\ log[i + 1].tenths = 15 * log[i].attempt
              /\ i + 2 <= Len(log) =>
                    /\ log[i + 2].ev = "get"
                    /\ log[i + 2].attempt = log[i].attempt + 1
        /\ (log[i].ev = "fail" /\ log[i].attempt >= retries) => i = Len(log)
        /\ log[i].ev = "sleep" =>
              /\ i > 1
              /\ log[i - 1].ev = "fail"
              /\ log[i - 1].attempt = log[i].attempt
        /\ (log[i].ev = "get" /\ log[i].attempt > 1) =>
              /\ i > 1
              /\ log[i - 1].ev = "sleep"
              /\ log[i - 1].attempt = log[i].attempt - 1
        /\ log[i].ev = "ok" => i = Len(log)

C10_Witness ==
    /\ pc = "done"
    /\ retries = 3
    /\ Len(Fails) = 3
    /\ Len(Sleeps) = 2
    /\ Sleeps[1].tenths = 15
    /\ Sleeps[2].tenths = 30

\* ------------------------------------------------------------ _score_text
Pieces ==
    {<<"u", "p">>, <<"U", "P", " ">>, <<"s", "e", "l", "l">>,
     <<"S", "e", "l", "l", "\n">>, <<"r", "i", "s", "k", "-", "o", "n">>,
     <<"x">>, <<"'">>, <<"-">>, <<"1">>, <<" ">>}

RECURSIVE Concat(_)
Concat(ss) == IF ss = <<>> THEN <<>> ELSE Head(ss) \o Concat(Tail(ss))

Texts == {Concat(ps) : ps \in SeqsUpTo(Pieces, MaxPieces)}

ScoreInit ==
    /\ text \in Texts
    /\ score = <<>>

ScoreText ==
    /\ score = <<>>
    /\ score' = <<_score_text(text)>>
    /\ UNCHANGED <<text, priceVars, newsVars, signalVars>>

ScoreNext == ScoreText

InitScore == ScoreInit /\ PriceIdle /\ NewsIdle /\ SignalIdle

SpecScore == InitScore /\ [][ScoreNext]_vars

positive_count == CountIn(FindAll(Lower(text), <<>>), POSITIVE_WORDS)
negative_count == CountIn(FindAll(Lower(text), <<>>), NEGATIVE_WORDS)

\* C6: the score of a text is (positive_count - negative_count) /
\* (positive_count + negative_count) over its case-folded tokens, 0 when both
\* counts are zero; it lies in [-1, 1], is 1 with only positive hits and -1
\* with only negative hits.
C6_LexiconScore ==
    score # <<>> =>
        LET r == score[1]
            hits == positive_count + negative_count
        IN  /\ r.d > 0
            /\ hits = 0 => r = RInt(0)
            /\ hits > 0 => r.n * hits = (positive_count - negative_count) * r.d
            /\ -r.d <= r.n /\ r.n <= r.d
            /\ (positive_count > 0 /\ negative_count = 0) => r = RInt(1)
            /\ (positive_count = 0 /\ negative_count > 0) => r = RInt(-1)

C6_Witness ==
    /\ score # <<>>
    /\ positive_count = 2
    /\ negative_count = 1
    /\ score[1] = [n |-> 1, d |-> 3]

\* ------------------------------------------------ fetch_news, filter_recent
\* A parsed time (struct_time) is <<day, hour>>; an absent one is <<>>.
\* A datetime is the number of hours since the epoch, in UTC.
NoTime == <<>>

\* calendar.timegm
timegm(parsed) == parsed[1] * 24 + parsed[2]

\* _to_datetime: <<>> for None, <<datetime>> otherwise
_to_datetime(parsed) == IF parsed = NoTime THEN <<>> ELSE <<timegm(parsed)>>

\* datetime.date()
Date(t) == t \div 24

\* timedelta(hours=24)
Hours24 == 24

\* Python `a or b` on two optional parsed times
Or(a, b) == IF a # NoTime THEN a ELSE b

Entry(pub, upd, title, link) ==
    [published_parsed |-> pub, updated_parsed |-> upd, title |-> title,
     link |-> link, summary |-> <<"R", "a", "l", "l", "y", "\n">>]

\* entries with a time (published wins over updated), two of the titles
\* differing only in case and blanks, plus one with a link, one without any
\* time and one whose title is blank
Entries ==
    {Entry(tm[1], tm[2], title, <<>>) :
        tm \in {<<<<2, 0>>, <<1, 12>>>>, <<NoTime, <<1, 12>>>>},
        title \in {<<"U", "p">>, <<" ", "u", "p", " ">>, <<"S", "e", "l", "l">>}}
    \cup {Entry(<<2, 0>>, <<1, 12>>, <<"U", "p">>, <<"x">>),
          Entry(NoTime, NoTime, <<"U", "p">>, <<"x">>),
          Entry(<<2, 0>>, NoTime, <<" ">>, <<"x">>)}

\* two sources; every way to cut a sequence of entries into their two feeds
FeedPairs ==
    UNION {{<<SubSeq(es, 1, k), SubSeq(es, k + 1, Len(es))>> : k \in 0..Len(es)} :
              es \in SeqsUpTo(Entries, MaxEntries)}

\* reference times: the day of the older items, the hour of the newer ones,
\* exactly 24 hours after them, and one hour later
NowValues == {47, 48, 72, 73}

\* the entries in the order the two nested loops visit them
Flat == Concat(feeds)

\* mutant: the key keeps the title's case
DedupeKeyCaseSensitive(title, link) == <<title, link>>

\* dedupe_key = (title.lower(), link)
DedupeKey(title, link) == <<Lower(title), link>>

\* NewsItem(...) as built in the loop body
NewsItem(entry) ==
    LET title == _clean_text(entry.title)
        summary == _clean_text(entry.summary)
    IN  [title |-> title,
         link |-> entry.link,
         published |-> _to_datetime(Or(entry.published_parsed,
                                       entry.updated_parsed))[1],
         summary |-> summary,
         score |-> _score_text(title \o <<" ">> \o summary)]

\* the two `continue` conditions of the loop body
Skipped(entry, seenKeys) ==
    \/ _to_datetime(Or(entry.published_parsed, entry.updated_parsed)) = <<>>
    \/ _clean_text(entry.title) = <<>>
    \/ DedupeKey(_clean_text(entry.title), entry.link) \in seenKeys

\* mutant: an unstable descending sort (ascending sort, then reversed)
RECURSIVE InsertDescUnstable(_, _)
InsertDescUnstable(sorted, x) ==
    IF sorted = <<>> THEN <<x>>
    ELSE IF Last(sorted).published > x.published THEN Append(sorted, x)
    ELSE Append(InsertDescUnstable(SubSeq(sorted, 1, Len(sorted) - 1), x),
                Last(sorted))

\* one insertion of list.sort(key=published, reverse=True): x came after all
\* of `sorted` in the list, so it goes behind every element not older than it
RECURSIVE InsertDesc(_, _)
InsertDesc(sorted, x) ==
    IF sorted = <<>> THEN <<x>>
    ELSE IF Last(sorted).published >= x.published THEN Append(sorted, x)
    ELSE Append(InsertDesc(SubSeq(sorted, 1, Len(sorted) - 1), x), Last(sorted))

RECURSIVE SortNewestFirst(_)
SortNewestFirst(s) ==
    IF s = <<>> THEN <<>>
    ELSE InsertDesc(SortNewestFirst(SubSeq(s, 1, Len(s) - 1)), Last(s))

\* mutant: a sliding window, today's items only win when today_only is set
filter_recent_sliding(its, ref, only) ==
    LET today_items == SelectSeq(its, LAMBDA item : Date(item.published) = Date(ref))
        recent_items == SelectSeq(its, LAMBDA item : item.published >= ref - Hours24)
    IN  IF only /\ today_items # <<>> THEN <<today_items, "today">>
        ELSE IF only THEN <<<<>>, "none">>
        ELSE <<recent_items, "last_24h">>

filter_recent(its, ref, only) ==
    LET today_items == SelectSeq(its, LAMBDA item : Date(item.published) = Date(ref))
        cutoff == ref - Hours24
        recent_items == SelectSeq(its, LAMBDA item : item.published >= cutoff)
    IN  IF today_items # <<>> THEN <<today_items, "today">>
        ELSE IF only THEN <<<<>>, "none">>
        ELSE <<recent_items, "last_24h">>

NewsInit ==
    /\ feeds \in FeedPairs
    /\ nread = 0
    /\ items = <<>>
    /\ seen = {}
    /\ news = <<>>
    /\ now = 0
    /\ today_only = FALSE
    /\ filtered = <<>>
    /\ window_label = ""
    /\ npc = "fetch_news"

\* loop body, an entry that is appended
KeepEntry ==
    /\ npc = "fetch_news"
    /\ nread < Len(Flat)
    /\ LET entry == Flat[nread + 1] IN
        /\ ~Skipped(entry, seen)
        /\ seen' = seen \cup {DedupeKey(_clean_text(entry.title), entry.link)}
        /\ items' = Append(items, NewsItem(entry))
    /\ nread' = nread + 1
    /\ UNCHANGED <<feeds, news, now, today_only, filtered, window_label, npc,
                   priceVars, scoreVars, signalVars>>

\* loop body, an entry that hits one of the `continue`s
DropEntry ==
    /\ npc = "fetch_news"
    /\ nread < Len(Flat)
    /\ Skipped(Flat[nread + 1], seen)
    /\ nread' = nread + 1
    /\ UNCHANGED <<feeds, items, seen, news, now, today_only, filtered,
                   window_label, npc, priceVars, scoreVars, signalVars>>

\* after the loops: sort and return
ReturnNews ==
    /\ npc = "fetch_news"
    /\ nread = Len(Flat)
    /\ news' = SortNewestFirst(items)
    /\ npc' = "filter_recent"
    /\ UNCHANGED <<feeds, nread, items, seen, now, today_only, filtered,
                   window_label, priceVars, scoreVars, signalVars>>

\* filter_recent(news, now, today_only) on the returned list
FilterRecent ==
    /\ npc = "filter_recent"
    /\ \E ref \in NowValues, only \in BOOLEAN :
        /\ now' = ref
        /\ today_only' = only
        /\ filtered' = filter_recent(news, ref, only)[1]
        /\ window_label' = filter_recent(news, ref, only)[2]
    /\ npc' = "done"
    /\ UNCHANGED <<feeds, nread, items, seen, news,
                   priceVars, scoreVars, signalVars>>

NewsNext == KeepEntry \/ DropEntry \/ ReturnNews \/ FilterRecent

InitNews == NewsInit /\ PriceIdle /\ ScoreIdle /\ SignalIdle

SpecNews == InitNews /\ [][NewsNext]_vars

\* ---------------------------------------------------- properties: news
IsToday(item) == Date(item.published) = Date(now)
InLast24h(item) == item.published >= now - Hours24

\* C3: filter_recent follows the three tiers in order: any item dated today
\* gives exactly the today items with label "today", whatever the last-24h
\* window holds; otherwise today_only gives the empty list with "none";
\* otherwise exactly the items published at or after now - 24h, "last_24h".
C3_ThreeTier ==
    npc = "done" =>
        IF \E i \in 1..Len(news) : IsToday(news[i])
        THEN /\ filtered = SelectSeq(news, IsToday)
             /\ window_label = "today"
        ELSE IF today_only
        THEN /\ filtered = <<>>
             /\ window_label = "none"
        ELSE /\ filtered = SelectSeq(news, InLast24h)
             /\ window_label = "last_24h"

\* today holds one item while the last 24 hours hold more, fallback allowed
C3_Witness ==
    /\ npc = "done"
    /\ ~today_only
    /\ window_label = "today"
    /\ Len(filtered) = 1
    /\ Len(SelectSeq(news, InLast24h)) = 2

KeyOf(item) == <<Lower(item.title), item.link>>

\* the entry has a publish time and a non-empty title
Eligible(entry) ==
    /\ entry.published_parsed # NoTime \/ entry.updated_parsed # NoTime
    /\ _clean_text(entry.title) # <<>>

EntryKey(entry) == <<Lower(_clean_text(entry.title)), entry.link>>

\* the first eligible entry, in source-then-entry order, with the key of Flat[e]
FirstWithKey(e) ==
    CHOOSE f \in 1..Len(Flat) :
        /\ Eligible(Flat[f])
        /\ EntryKey(Flat[f]) = EntryKey(Flat[e])
        /\ \A g \in 1..(f - 1) :
              ~(Eligible(Flat[g]) /\ EntryKey(Flat[g]) = EntryKey(Flat[e]))

\* C4: the returned list holds no two items with the same (lowercased title,
\* link) key, and for every eligible entry exactly one returned item has its
\* key: the item built from the first eligible entry with that key.
C4_Dedup ==
    npc = "filter_recent" =>
        /\ \A i, j \in 1..Len(news) : KeyOf(news[i]) = KeyOf(news[j]) => i = j
        /\ \A e \in 1..Len(Flat) :
              Eligible(Flat[e]) =>
                  /\ Cardinality({i \in 1..Len(news) :
                                     KeyOf(news[i]) = EntryKey(Flat[e])}) = 1
                  /\ \E i \in 1..Len(news) : news[i] = NewsItem(Flat[FirstWithKey(e)])
        /\ \A i \in 1..Len(news) :
              \E e \in 1..Len(Flat) :
                  Eligible(Flat[e]) /\ news[i] = NewsItem(Flat[FirstWithKey(e)])

\* a later entry repeats an earlier key with another case and another time
C4_Witness ==
    /\ npc = "filter_recent"
    /\ Len(news) = 1
    /\ \E e, f \in 1..Len(Flat) :
          /\ e < f
          /\ Eligible(Flat[e]) /\ Eligible(Flat[f])
          /\ EntryKey(Flat[e]) = EntryKey(Flat[f])
          /\ NewsItem(Flat[e]) # NewsItem(Flat[f])
          /\ news[1] = NewsItem(Flat[e])

IngestPos(item) == CHOOSE i \in 1..Len(items) : items[i] = item

\* C5: the returned list is the ingested items ordered newest first, items
\* with equal publish time keeping their ingestion order.
C5_NewestFirstStable ==
    npc = "filter_recent" =>
        /\ Len(news) = Len(items)
        /\ \A i \in 1..Len(items) : \E j \in 1..Len(news) : news[j] = items[i]
        /\ \A i \in 1..(Len(news) - 1) : news[i].published >= news[i + 1].published
        /\ \A i, j \in 1..Len(news) :
              (i < j /\ news[i].published = news[j].published) =>
                  IngestPos(news[i]) < IngestPos(news[j])

\* three items returned, two of them tied, the sort moved one
C5_Witness ==
    /\ npc = "filter_recent"
    /\ Len(news) = 3
    /\ news # items
    /\ \E i \in 1..2 : news[i].published = news[i + 1].published

\* ------------------------------ combine_signal, format_report, classify_signal
ItemScores == {RInt(-1), Rat(-1, 3), RInt(0), Rat(1, 2), RInt(1)}
PctChanges ==
    {RInt(-10), RInt(-5), Rat(-5, 2), RInt(-1), RInt(0), Rat(3, 4), Rat(5, 2),
     RInt(3), RInt(5), RInt(10)}

\* only the fields combine_signal reads
ScoredItems == {[score |-> r] : r \in ItemScores}
Snapshots == {[pct_change_since_close |-> r] : r \in PctChanges}

\* mutant: the price component is not clamped
PriceScoreUnclamped(pct) == RDiv(pct, RInt(5))

\* max(-1.0, min(1.0, pct_change_since_close / 5.0))
PriceScore(pct) == RMax(RInt(-1), RMin(RInt(1), RDiv(pct, RInt(5))))

combine_signal(its, fut) ==
    LET news_score ==
            IF its # <<>>
            THEN RDiv(RSum([i \in 1..Len(its) |-> its[i].score]), RInt(Len(its)))
            ELSE RInt(0)
        price_score == PriceScore(fut.pct_change_since_close)
    IN  RAdd(RMul(Rat(7, 10), news_score), RMul(Rat(3, 10), price_score))

\* the branch format_report takes on combined_score
format_report(combined_score) ==
    IF RLe(Rat(15, 100), combined_score)
    THEN [sentiment |-> "bullish", long_bias |-> "favored",
          short_bias |-> "disfavored", direction |-> "increase"]
    ELSE IF RLe(combined_score, Rat(-15, 100))
    THEN [sentiment |-> "bearish", long_bias |-> "disfavored",
          short_bias |-> "favored", direction |-> "decrease"]
    ELSE [sentiment |-> "neutral", long_bias |-> "balanced",
          short_bias |-> "balanced", direction |-> "flat to mixed"]

classify_signal(s) ==
    IF RLe(Rat(15, 100), s) THEN <<"Bullish", "increase">>
    ELSE IF RLe(s, Rat(-15, 100)) THEN <<"Bearish", "decrease">>
    ELSE <<"Neutral", "move sideways">>

SignalInit ==
    /\ news_items \in SeqsUpTo(ScoredItems, MaxItems)
    /\ futures \in Snapshots
    /\ combined = <<>>
    /\ report = <<>>
    /\ badge = <<>>

CombineSignal ==
    /\ combined = <<>>
    /\ combined' = <<combine_signal(news_items, futures)>>
    /\ UNCHANGED <<news_items, futures, report, badge,
                   priceVars, newsVars, scoreVars>>

\* the CLI: format_report on the combined score
FormatReport ==
    /\ combined # <<>>
    /\ report = <<>>
    /\ report' = <<format_report(combined[1])>>
    /\ UNCHANGED <<news_items, futures, combined, badge,
                   priceVars, newsVars, scoreVars>>

\* the dashboard: classify_signal on the combined score
ClassifySignal ==
    /\ combined # <<>>
    /\ badge = <<>>
    /\ badge' = <<classify_signal(combined[1])>>
    /\ UNCHANGED <<news_items, futures, combined, report,
                   priceVars, newsVars, scoreVars>>

SignalNext == CombineSignal \/ FormatReport \/ ClassifySignal

InitSignal == SignalInit /\ PriceIdle /\ NewsIdle /\ ScoreIdle

SpecSignal == InitSignal /\ [][SignalNext]_vars

\* ---------------------------------------------------- properties: signal
\* clamp(pct_change / 5, -1, 1), from the snapshot's numerator and denominator
ClampedFifth ==
    LET pct == futures.pct_change_since_close
    IN  IF pct.n >= 5 * pct.d THEN RInt(1)
        ELSE IF pct.n <= -5 * pct.d THEN RInt(-1)
        ELSE Rat(pct.n, 5 * pct.d)

MeanScore ==
    IF Len(news_items) = 0 THEN RInt(0)
    ELSE LET total == RSum([i \in 1..Len(news_items) |-> news_items[i].score])
         IN  Rat(total.n, total.d * Len(news_items))

\* C7: the combined signal is 0.7 * mean item score + 0.3 * clamp(pct / 5, -1,
\* 1), the mean being 0 for an empty list, so that an empty list gives exactly
\* 0.3 * clamp(pct / 5, -1, 1); with item scores in [-1, 1] it lies in [-1, 1].
C7_Combine ==
    combined # <<>> =>
        LET c == combined[1] IN
        /\ c = RAdd(Rat(7 * MeanScore.n, 10 * MeanScore.d),
                    Rat(3 * ClampedFifth.n, 10 * ClampedFifth.d))
        /\ news_items = <<>> => c = Rat(3 * ClampedFifth.n, 10 * ClampedFifth.d)
        /\ -c.d <= c.n /\ c.n <= c.d

\* two items scoring 1 next to a saturated price move: the upper end of the range
C7_Witness ==
    /\ combined # <<>>
    /\ Len(news_items) = 2
    /\ futures.pct_change_since_close = RInt(10)
    /\ combined[1] = RInt(1)

SameClass(a, b) ==
    \E c \in {{"Bullish", "bullish"}, {"Bearish", "bearish"}, {"Neutral", "neutral"}} :
        a \in c /\ b \in c

\* C8: the classification is Bullish/increase at or above 0.15, Bearish/
\* decrease at or below -0.15, Neutral/move sideways in between, and the CLI
\* report and the dashboard give one score the same class and direction.
C8_SameClassification ==
    (report # <<>> /\ badge # <<>>) =>
        LET expected ==
                IF combined[1].n * 100 >= 15 * combined[1].d
                THEN <<"Bullish", "increase">>
                ELSE IF combined[1].n * 100 <= -15 * combined[1].d
                THEN <<"Bearish", "decrease">>
                ELSE <<"Neutral", "move sideways">>
        IN  /\ badge[1] = expected
            /\ SameClass(report[1].sentiment, expected[1])
            /\ report[1].direction = expected[2]

\* ------------------------------------------- properties: cleaned series
BodyTs == chart[1].result[1].timestamp
BodyCloses == chart[1].result[1].quote[1].close

\* the bars of the body that have a timestamp and a non-null close
ValidBars == {i \in 1..Min2(Len(BodyTs), Len(BodyCloses)) : BodyCloses[i] # Null}

\* C11: in every returned snapshot, whatever the order of the bars, last and
\* yesterday are two different bars with a non-null close, each close with the
\* timestamp of its own bar; last has the greatest timestamp of all such bars
\* and yesterday the greatest of the others, so last_close_time >=
\* yesterday_close_time.
C11_LastTwoBars ==
    outcome.kind = "snapshot" =>
        /\ \E i, j \in ValidBars :
              /\ i # j
              /\ BodyTs[i] = outcome.last_close_time
              /\ BodyCloses[i] = Num(outcome.last_price)
              /\ BodyTs[j] = outcome.yesterday_close_time
              /\ BodyCloses[j] = Num(outcome.yesterday_close)
              /\ \A k \in ValidBars : BodyTs[k] <= BodyTs[i]
              /\ \A k \in ValidBars \ {i} : BodyTs[k] <= BodyTs[j]
        /\ outcome.last_close_time >= outcome.yesterday_close_time

\* a null close ahead of bars that arrive newest first
C11_Witness ==
    /\ outcome.kind = "snapshot"
    /\ Len(BodyTs) = 3
    /\ BodyCloses[1] = Null
    /\ BodyTs[2] > BodyTs[3]
    /\ outcome.last_close_time = BodyTs[2]
    /\ outcome.last_price = BodyCloses[2][1]
    /\ outcome.yesterday_close_time = BodyTs[3]
    /\ outcome.last_price # outcome.yesterday_close

====
